---- MODULE Spec2Model ----
(***************************************************************************)
(* Model of the online repository of citi-async (src/Conn.py): the         *)
(* connection lifecycle of _OnlineRepoCouchbase (initialize_repo,          *)
(* create_conn), its CRUD dispatch (validate, find_by_key, save, save_all, *)
(* native_query) and the value conversions made on the read and write      *)
(* paths.  Callers are asyncio tasks on one event loop: the code between   *)
(* two `await`s runs atomically, every `await` is a suspension point.      *)
(***************************************************************************)
EXTENDS Integers, Sequences, FiniteSets, TLC

\* ------------------------------------------------------------------ bounds

MaxCalls == 3       \* calls made on the instance in one behaviour

Tasks == {"t1", "t2"}                 \* concurrent callers on the event loop
Keys == {"101", "dummykey"}           \* document keys (validate's sentinel among them)

\* ------------------------------------------------------- Python values

\* A Python value is a type tag and a content: the characters of a str, the
\* bytes of a bytes object, the digit of an int, the flattened (key, value)
\* pairs of a dict whose keys are one-character strings and values digits.
PyNone == [ty |-> "none", c |-> <<>>]
PyStr(c) == [ty |-> "str", c |-> c]
PyBytes(c) == [ty |-> "bytes", c |-> c]
PyInt(n) == [ty |-> "int", c |-> <<n>>]
PyDict(c) == [ty |-> "dict", c |-> c]
MutationResult == [ty |-> "mutation", c |-> <<>>]

\* values callers hand to save / save_all:  "ok", "", 5, {"a": 1}, b"ok"
Values == { PyStr(<<111, 107>>), PyStr(<<>>), PyInt(5), PyDict(<<97, 1>>),
            PyBytes(<<111, 107>>) }

\* the outcome of a call or of a conversion: a value, or a raised exception
Ok(v) == [st |-> "ok", val |-> v, exc |-> "none"]
Raise(e) == [st |-> "err", val |-> PyNone, exc |-> e]

\* ------------------------------------------- driver: transcoders (JSON, raw)

\* json.dumps of the entries of a dict: "k": d, separated by ", "
RECURSIVE DumpsEntries(_)
DumpsEntries(c) ==
    IF c = <<>> THEN <<>>
    ELSE <<34, c[1], 34, 58, 32, 48 + c[2]>>
         \o (IF Len(c) > 2 THEN <<44, 32>> \o DumpsEntries(SubSeq(c, 3, Len(c)))
             ELSE <<>>)

\* json.dumps(value).encode('utf-8')
JsonDumps(v) ==
    CASE v.ty = "str" -> <<34>> \o v.c \o <<34>>
      [] v.ty = "int" -> <<48 + v.c[1]>>
      [] v.ty = "dict" -> <<123>> \o DumpsEntries(v.c) \o <<125>>
      [] OTHER -> <<110, 117, 108, 108>>

RECURSIVE LoadsEntries(_)
LoadsEntries(s) ==
    IF s = <<>> THEN <<>>
    ELSE <<s[2], s[6] - 48>>
         \o (IF Len(s) > 6 THEN LoadsEntries(SubSeq(s, 9, Len(s))) ELSE <<>>)

\* json.loads(bytes.decode('utf-8'))
JsonLoads(b) ==
    CASE b[1] = 34 -> PyStr(SubSeq(b, 2, Len(b) - 1))
      [] b[1] = 123 -> PyDict(LoadsEntries(SubSeq(b, 2, Len(b) - 1)))
      [] b[1] \in 48..57 -> PyInt(b[1] - 48)
      [] OTHER -> PyNone

\* a stored document: the format flag the transcoder set and the body bytes
NoDoc == [flags |-> "none", body |-> <<>>]
Doc(flags, body) == [flags |-> flags, body |-> body]

\* Transcoder.encode_value: the default JSON transcoder refuses binary data,
\* RawBinaryTranscoder accepts binary data only.
EncodeOk(transcoder, v) ==
    IF transcoder = "raw" THEN v.ty = "bytes"
    ELSE v.ty \in {"str", "int", "dict", "none"}

Encode(transcoder, v) ==
    IF transcoder = "raw" THEN Doc("bytes", v.c) ELSE Doc("json", JsonDumps(v))

\* Transcoder.decode_value: each transcoder decodes its own format flag only.
Decode(transcoder, doc) ==
    IF transcoder = "raw"
    THEN IF doc.flags = "bytes" THEN Ok(PyBytes(doc.body))
         ELSE Raise("ValueFormatException")
    ELSE IF doc.flags = "json" THEN Ok(JsonLoads(doc.body))
         ELSE Raise("ValueFormatException")

\* ---------------------------------- result.content_as[T] == T(content)

RECURSIVE ReprEntries(_)
ReprEntries(c) ==
    IF c = <<>> THEN <<>>
    ELSE <<39, c[1], 39, 58, 32, 48 + c[2]>>
         \o (IF Len(c) > 2 THEN <<44, 32>> \o ReprEntries(SubSeq(c, 3, Len(c)))
             ELSE <<>>)

\* str(content): never raises
ContentAsStr(v) ==
    CASE v.ty = "str" -> Ok(v)
      [] v.ty = "int" -> Ok(PyStr(<<48 + v.c[1]>>))
      [] v.ty = "dict" -> Ok(PyStr(<<123>> \o ReprEntries(v.c) \o <<125>>))
      [] v.ty = "bytes" -> Ok(PyStr(<<98, 39>> \o v.c \o <<39>>))
      [] OTHER -> Ok(PyStr(<<78, 111, 110, 101>>))

\* bytes(content): a str needs an encoding, an int n gives n zero bytes, a
\* dict is iterated over its (str) keys
ContentAsBytes(v) ==
    CASE v.ty = "bytes" -> Ok(v)
      [] v.ty = "int" -> Ok(PyBytes([i \in 1..v.c[1] |-> 0]))
      [] v.ty = "dict" /\ v.c = <<>> -> Ok(PyBytes(<<>>))
      [] OTHER -> Raise("TypeError")

\* dict(content): a non-empty str is a sequence of length-1 elements
\* (ValueError), an empty one an empty sequence of pairs; an int is not
\* iterable and the elements of a bytes object are not sequences (TypeError)
ContentAsDict(v) ==
    CASE v.ty = "dict" -> Ok(v)
      [] v.ty \in {"str", "bytes"} /\ v.c = <<>> -> Ok(PyDict(<<>>))
      [] v.ty = "str" -> Raise("ValueError")
      [] OTHER -> Raise("TypeError")

\* ---------------------------------------------------------- configuration

\* ConnConfig.__init__: every argument is stored as given, nothing is checked;
\* the timeouts take their defaults
ConnConfig(bucket_name, scope_name, collection_name) ==
    [ bucket_name |-> bucket_name, scope_name |-> scope_name,
      collection_name |-> collection_name,
      connect_timeout |-> 10, kv_timeout |-> 5, wait_timeout |-> 5 ]

\* the bucket names callers construct a config with: the one of the module's
\* own `connection`, and the empty name
BucketNames == {"test", ""}

\* ClusterTimeoutOptions(...): the timeouts create_conn hands to the driver
TimeoutOptions(cfg) ==
    [ connect_timeout |-> cfg.connect_timeout, kv_timeout |-> cfg.kv_timeout ]

\* the configured timeouts in force while create_conn awaits
\* self.cluster.on_connect(): those handed to the driver, nothing else (the
\* await is not wrapped in a timeout of its own)
ReadyWaitBounds(cfg) == DOMAIN TimeoutOptions(cfg)

\* the buckets of the backend cluster: none has the empty name
BucketExists(name) == name # ""

\* -------------------------------------------------------------- the state

VARIABLES
    conn,       \* self.conn: 0 is None, n > 0 the collection resolved from session n
    cluster,    \* self.cluster: 0 is None, n > 0 the session opened by call n
    store,      \* the backend collection: key -> stored document or NoDoc
    task,       \* per caller: the call it is in, its position, locals and result
    inflight,   \* upserts handed to the driver whose future nobody awaits
    bindFailed, \* history: some run of the bind sequence has failed
    conn_config, \* self.conn_config: the ConnConfig handed to the constructor
    calls       \* number of calls made so far (the id of the latest call)

vars == <<conn, cluster, store, task, inflight, bindFailed, conn_config, calls>>

\* the mappings handed to save_all: sequences of <<key, value>>, keys distinct
BatchValues == { PyStr(<<111, 107>>), PyBytes(<<111, 107>>) }
Batches ==
    {<<>>}
    \cup { <<e>> : e \in Keys \X BatchValues }
    \cup { <<e1, e2>> : <<e1, e2>> \in
             { p \in (Keys \X BatchValues) \X (Keys \X BatchValues) : p[1][1] # p[2][1] } }

\* the row sequences the query service yields
RowSets == { <<>>, <<2, 1>> }

IdleTask ==
    [ op |-> "none", pc |-> "idle", id |-> 0, key |-> "101",
      compress |-> FALSE, transcoder |-> "json", doc |-> NoDoc, batch |-> <<>>,
      \* doc: what save encoded; for find_by_key, what the store held at the call
      \* refused: the entries of a save_all batch whose upsert the backend refused
      bucket |-> 0, steps |-> <<>>, connAtCall |-> 0, afterFailure |-> FALSE,
      reply |-> "none",
      issued |-> 0, refused |-> {}, out |-> Ok(PyNone) ]

\* _OnlineRepoCouchbase.__init__ / BaseRepo.__init__
Init ==
    /\ conn = 0
    /\ cluster = 0
    /\ store = [k \in Keys |-> NoDoc]
    /\ task = [t \in Tasks |-> IdleTask]
    /\ inflight = <<>>
    /\ bindFailed = FALSE
    /\ conn_config \in {ConnConfig(b, "test", "test") : b \in BucketNames}
    /\ calls = 0

\* a caller enters a call: the fresh locals of the call
Enter(t, op) ==
    [IdleTask EXCEPT !.op = op, !.id = calls + 1, !.connAtCall = conn,
                     !.afterFailure = bindFailed]

CanCall(t) == task[t].pc = "idle" /\ calls < MaxCalls

\* the locals of a call are gone when it returns
Returned(r, out) ==
    [r EXCEPT !.pc = "done", !.out = out, !.doc = NoDoc, !.bucket = 0,
              !.transcoder = "json"]

\* no method of the repository assigns self.conn_config or a field of it
ConfigFrame == UNCHANGED conn_config

\* validate, find_by_key, save, save_all and native_query assign neither
\* self.conn nor self.cluster
CrudFrame_LazyConnect ==
    conn' = (IF conn = 0 THEN cluster ELSE conn) /\ UNCHANGED cluster /\ ConfigFrame
CrudFrame == UNCHANGED <<conn, cluster>> /\ ConfigFrame

\* ------------------------------------------------- connection lifecycle

\* except Exception in create_conn (and in initialize_repo): log and re-raise
BindFailed_Continue(r) ==
    [r EXCEPT !.pc = "bucket_on_connect", !.bucket = cluster, !.steps = @ \o <<4>>,
              !.reply = "fail"]
BindFailed(r) == Returned([r EXCEPT !.reply = "fail"], Raise("CouchbaseException"))

\* create_conn up to its first await: the authenticator and the timeout
\* options are built (step 1), then Cluster.connect is called (step 2)
CreateConnBegin(t, r) ==
    \E ok \in BOOLEAN :
        /\ task' = [task EXCEPT ![t] =
                      IF ok THEN [r EXCEPT !.pc = "connect", !.steps = <<1, 2>>,
                                           !.issued = 1]
                      ELSE Returned([r EXCEPT !.steps = <<1>>, !.reply = "fail"],
                                    Raise("Exception"))]
        /\ bindFailed' = (bindFailed \/ ~ok)
        /\ ConfigFrame
        /\ UNCHANGED <<conn, cluster, store, inflight>>

\* the guard of initialize_repo
MustConnect_Always(c) == TRUE
MustConnect_NoSession(c) == c = 0 /\ cluster = 0
MustConnect(c) == c = 0

\* initialize_repo: connects only when self.conn is None
initialize_repo(t) ==
    /\ CanCall(t)
    /\ calls' = calls + 1
    /\ IF MustConnect(conn)
       THEN CreateConnBegin(t, Enter(t, "initialize_repo"))
       ELSE /\ task' = [task EXCEPT ![t] =
                          Returned(Enter(t, "initialize_repo"), Ok(PyNone))]
            /\ ConfigFrame
            /\ UNCHANGED <<conn, cluster, store, inflight, bindFailed>>

\* create_conn called directly
create_conn(t) ==
    /\ CanCall(t)
    /\ calls' = calls + 1
    /\ CreateConnBegin(t, Enter(t, "create_conn"))

\* await Cluster.connect(...) resumes: the session is stored in self.cluster,
\* then cluster.on_connect() is called (step 3)
CreateConnConnected(t) ==
    /\ task[t].pc = "connect"
    /\ \E ok \in BOOLEAN :
         /\ IF ok
            THEN /\ cluster' = task[t].id
                 /\ task' = [task EXCEPT ![t] =
                               [@ EXCEPT !.pc = "on_connect", !.steps = @ \o <<3>>,
                                         !.issued = @ + 1]]
            ELSE /\ cluster' = cluster
                 /\ task' = [task EXCEPT ![t] = BindFailed(@)]
         /\ bindFailed' = (bindFailed \/ ~ok)
    /\ ConfigFrame
    /\ UNCHANGED <<conn, store, inflight, calls>>

\* await self.cluster.on_connect() resumes: the bucket is resolved from
\* self.cluster as it is now, then bucket.on_connect() is called (step 4)
CreateConnReady(t) ==
    /\ task[t].pc = "on_connect"
    /\ \E ok \in BOOLEAN :
         /\ task' = [task EXCEPT ![t] =
                       IF ok THEN [@ EXCEPT !.pc = "bucket_on_connect", !.bucket = cluster,
                                            !.steps = @ \o <<4>>, !.issued = @ + 1]
                       ELSE BindFailed(@)]
         /\ bindFailed' = (bindFailed \/ ~ok)
    /\ ConfigFrame
    /\ UNCHANGED <<conn, cluster, store, inflight, calls>>

\* the handle stored by step 6: the collection of the scope of the bucket
StoredHandle_Session(r, cl) == cl
StoredHandle(r, cl) == r.bucket

\* await bucket.on_connect() resumes (a bucket the cluster does not have
\* never gets ready): scope (step 5), collection (step 6), self.conn is
\* stored and the call returns
CreateConnBucketReady(t) ==
    /\ task[t].pc = "bucket_on_connect"
    /\ \E ok \in BOOLEAN :
         /\ ok => BucketExists(conn_config.bucket_name)
         /\ IF ok
            THEN /\ conn' = StoredHandle(task[t], cluster)
                 /\ task' = [task EXCEPT ![t] =
                               Returned([@ EXCEPT !.steps = @ \o <<5, 6>>], Ok(PyNone))]
            ELSE /\ conn' = conn
                 /\ task' = [task EXCEPT ![t] = BindFailed(@)]
         /\ bindFailed' = (bindFailed \/ ~ok)
    /\ ConfigFrame
    /\ UNCHANGED <<cluster, store, inflight, calls>>

\* ------------------------------------------------------------ read path

\* self.conn.get(...) on an absent handle: attribute access on None
NoHandle_Never(c) == FALSE
NoHandle(c) == c = 0

\* validate: a raw-transcoder lookup of the sentinel key
validate(t) ==
    /\ CanCall(t)
    /\ calls' = calls + 1
    /\ LET r == [Enter(t, "validate") EXCEPT !.key = "dummykey", !.transcoder = "raw"]
       IN task' = [task EXCEPT ![t] =
                     IF NoHandle(conn) THEN Returned(r, Raise("AttributeError"))
                     ELSE [r EXCEPT !.pc = "get", !.issued = 1]]
    /\ CrudFrame
    /\ UNCHANGED <<store, inflight, bindFailed>>

\* the transcoder find_by_key hands to self.conn.get: none, so the default
GetTranscoder(compress) == "json"

\* find_by_key up to its await
find_by_key(t) ==
    /\ CanCall(t)
    /\ calls' = calls + 1
    /\ \E key \in Keys, compress \in BOOLEAN :
         LET r == [Enter(t, "find_by_key") EXCEPT !.key = key, !.compress = compress,
                          !.transcoder = GetTranscoder(compress),
                          !.doc = store[key]]
         IN task' = [task EXCEPT ![t] =
                       IF NoHandle(conn) THEN Returned(r, Raise("AttributeError"))
                       ELSE [r EXCEPT !.pc = "get", !.issued = 1]]
    /\ CrudFrame
    /\ UNCHANGED <<store, inflight, bindFailed>>

\* except DocumentNotFoundException: return None
OnNotFound_Raise == Raise("DocumentNotFoundException")
OnNotFound == Ok(PyNone)

\* validate's except DocumentNotFoundException: return None
ValidateOnNotFound_Raise == Raise("DocumentNotFoundException")
ValidateOnNotFound == Ok(PyNone)

\* except Exception in validate and in find_by_key: log and re-raise, once
GetFailed_Retry(r) ==
    IF r.issued < 2 THEN [r EXCEPT !.issued = @ + 1, !.reply = "fail"]
    ELSE Returned([r EXCEPT !.reply = "fail"], Raise("CouchbaseException"))
GetFailed(r) == Returned([r EXCEPT !.reply = "fail"], Raise("CouchbaseException"))

\* the exceptions of content_as[dict] that find_by_key's inner except catches
FallsBack(exc) == exc = "ValueError"

\* find_by_key after the lookup returned a document with this content (the
\* content_as[str] of the log line cannot raise and its value is dropped)
FindResult(content, compress) ==
    IF compress THEN ContentAsBytes(content)
    ELSE LET d == ContentAsDict(content)
         IN IF d.st = "ok" THEN d
            ELSE IF FallsBack(d.exc) THEN ContentAsStr(content)
            ELSE d

\* await self.conn.get(...) resumes, in validate and in find_by_key
GetReturns(t) ==
    /\ task[t].pc = "get"
    /\ \E ok \in BOOLEAN :
         LET r == task[t]
             d == store[r.key]
             dec == Decode(r.transcoder, d)
         IN task' = [task EXCEPT ![t] =
              IF ~ok THEN GetFailed(r)
              ELSE IF d = NoDoc
                   THEN Returned([r EXCEPT !.reply = "notfound"],
                                 IF r.op = "validate" THEN ValidateOnNotFound
                                 ELSE OnNotFound)
              ELSE IF dec.st = "err" THEN Returned([r EXCEPT !.reply = "ok"], dec)
              ELSE IF r.op = "validate" THEN Returned([r EXCEPT !.reply = "ok"], dec)
              ELSE Returned([r EXCEPT !.reply = "ok"], FindResult(dec.val, r.compress))]
    /\ CrudFrame
    /\ UNCHANGED <<store, inflight, bindFailed, calls>>

\* ----------------------------------------------------------- write path

\* the transcoder save hands to self.conn.upsert
SaveTranscoder(compress) == IF compress THEN "raw" ELSE "json"

\* save up to its await: the value is encoded when upsert is called
save(t) ==
    /\ CanCall(t)
    /\ calls' = calls + 1
    /\ \E key \in Keys, value \in Values, compress \in BOOLEAN :
         LET tr == SaveTranscoder(compress)
             r == [Enter(t, "save") EXCEPT !.key = key, !.compress = compress,
                          !.transcoder = tr]
         IN task' = [task EXCEPT ![t] =
                       IF NoHandle(conn) THEN Returned(r, Raise("AttributeError"))
                       ELSE IF ~EncodeOk(tr, value)
                            THEN Returned(r, Raise("ValueFormatException"))
                       ELSE [r EXCEPT !.pc = "upsert", !.doc = Encode(tr, value),
                                      !.issued = 1]]
    /\ CrudFrame
    /\ UNCHANGED <<store, inflight, bindFailed>>

\* await self.conn.upsert(...) resumes
UpsertReturns(t) ==
    /\ task[t].pc = "upsert"
    /\ \E ok \in BOOLEAN :
         IF ok
         THEN /\ store' = [store EXCEPT ![task[t].key] = task[t].doc]
              /\ task' = [task EXCEPT ![t] =
                            Returned([@ EXCEPT !.reply = "ok"], Ok(MutationResult))]
         ELSE /\ store' = store
              /\ task' = [task EXCEPT ![t] =
                            Returned([@ EXCEPT !.reply = "fail"], Raise("CouchbaseException"))]
    /\ CrudFrame
    /\ UNCHANGED <<inflight, bindFailed, calls>>

\* the entries of a batch before the first one the default transcoder refuses
RECURSIVE Encodable(_)
Encodable(batch) ==
    IF batch = <<>> \/ ~EncodeOk("json", batch[1][2]) THEN 0
    ELSE 1 + Encodable(Tail(batch))

\* the futures of the upserts save_all calls and does not await
Unawaited(id, batch, n) ==
    [i \in 1..n |-> [call |-> id, idx |-> i, key |-> batch[i][1],
                     doc |-> Encode("json", batch[i][2])]]

\* save_all: a plain function, one self.conn.upsert(key, value) per entry in
\* iteration order, none awaited
save_all(t) ==
    /\ CanCall(t)
    /\ calls' = calls + 1
    /\ \E batch \in Batches :
         LET r == [Enter(t, "save_all") EXCEPT !.batch = batch]
             n == Encodable(batch)
         IN IF batch = <<>>
            THEN /\ task' = [task EXCEPT ![t] = Returned(r, Ok(PyNone))]
                 /\ inflight' = inflight
            ELSE IF NoHandle(conn)
            THEN /\ task' = [task EXCEPT ![t] = Returned(r, Raise("AttributeError"))]
                 /\ inflight' = inflight
            ELSE /\ task' = [task EXCEPT ![t] =
                               Returned([r EXCEPT !.issued = n],
                                        IF n < Len(batch) THEN Raise("ValueFormatException")
                                        ELSE Ok(PyNone))]
                 /\ inflight' = inflight \o Unawaited(calls + 1, batch, n)
    /\ CrudFrame
    /\ UNCHANGED <<store, bindFailed>>

\* the backend completes an upsert whose future nobody awaits: the write is
\* applied, or refused with the error left on the future (noted on the call
\* that issued it, as long as its caller still holds that call's result)
BackendUpsert ==
    \E i \in 1..Len(inflight), ok \in BOOLEAN :
        LET u == inflight[i]
        IN /\ inflight' = SubSeq(inflight, 1, i - 1) \o SubSeq(inflight, i + 1, Len(inflight))
           /\ IF ok THEN store' = [store EXCEPT ![u.key] = u.doc] /\ task' = task
              ELSE /\ store' = store
                   /\ task' = [t \in Tasks |->
                                 IF task[t].id = u.call
                                 THEN [task[t] EXCEPT !.refused = @ \cup {u.idx}]
                                 ELSE task[t]]
           /\ UNCHANGED <<conn, cluster, bindFailed, conn_config, calls>>

\* ---------------------------------------------------------- native query

PyList(c) == [ty |-> "list", c |-> c]

\* what `[row for row in result]` can come to.  self.cluster is the
\* asynchronous cluster (it is awaited in create_conn) and native_query a
\* plain function that awaits nothing: a result that only iterates
\* asynchronously raises on `for row in result`; a result that iterates
\* synchronously gives the rows the query service yields, or its error.
QueryOutcomes == {"unsupported", "rows", "fail"}

\* native_query: a plain function, self.cluster.query(query) on whatever
\* session is stored, and a list of the rows of the result
native_query(t) ==
    /\ CanCall(t)
    /\ calls' = calls + 1
    /\ LET r == Enter(t, "native_query")
       IN IF cluster = 0
          THEN task' = [task EXCEPT ![t] = Returned(r, Raise("AttributeError"))]
          ELSE \E outcome \in QueryOutcomes, rows \in RowSets :
                 task' = [task EXCEPT ![t] =
                    CASE outcome = "rows" ->
                           Returned([r EXCEPT !.issued = 1, !.reply = "ok"],
                                    Ok(PyList(rows)))
                      [] outcome = "fail" ->
                           Returned([r EXCEPT !.issued = 1, !.reply = "fail"],
                                    Raise("CouchbaseException"))
                      [] OTHER ->
                           Returned([r EXCEPT !.issued = 1, !.reply = "unsupported"],
                                    Raise("NotImplementedError"))]
    /\ CrudFrame
    /\ UNCHANGED <<store, inflight, bindFailed>>

\* -------------------------------------------------------------- callers

\* the caller takes the result (or the exception) of its call
Return(t) ==
    /\ task[t].pc = "done"
    /\ task' = [task EXCEPT ![t] = IdleTask]
    /\ UNCHANGED <<conn, cluster, store, inflight, bindFailed, conn_config, calls>>

Next ==
    \/ \E t \in Tasks : initialize_repo(t)
    \/ \E t \in Tasks : create_conn(t)
    \/ \E t \in Tasks : CreateConnConnected(t)
    \/ \E t \in Tasks : CreateConnReady(t)
    \/ \E t \in Tasks : CreateConnBucketReady(t)
    \/ \E t \in Tasks : validate(t)
    \/ \E t \in Tasks : find_by_key(t)
    \/ \E t \in Tasks : GetReturns(t)
    \/ \E t \in Tasks : save(t)
    \/ \E t \in Tasks : UpsertReturns(t)
    \/ \E t \in Tasks : save_all(t)
    \/ BackendUpsert
    \/ \E t \in Tasks : native_query(t)
    \/ \E t \in Tasks : Return(t)

Spec == Init /\ [][Next]_vars

\* ================================================================ claims

\* the steps of the bind sequence, in order
BindSteps == <<1, 2, 3, 4, 5, 6>>

\* in this step caller t enters a call of op / has its call return / runs
Enters(t, op) == task[t].pc = "idle" /\ task'[t].pc # "idle" /\ task'[t].op = op
Finishes(t) == task[t].pc # "done" /\ task'[t].pc = "done"
Moves(t) == task'[t] # task[t]

\* C1: an initialize_repo call made while the handle is present returns at
\* once with success, runs no step of the bind sequence (no authenticator,
\* no session open, no backend call) and leaves self.conn and self.cluster
\* as they were.
C1_InitializeIdempotent ==
    [][\A t \in Tasks :
          (Enters(t, "initialize_repo") /\ conn # 0)
          => /\ task'[t].pc = "done"
             /\ task'[t].out = Ok(PyNone)
             /\ task'[t].steps = <<>>
             /\ task'[t].issued = 0
             /\ conn' = conn
             /\ cluster' = cluster]_vars

C1_Witness ==
    \E t \in Tasks :
        /\ task[t].op = "initialize_repo" /\ task[t].pc = "done"
        /\ task[t].connAtCall # 0 /\ task[t].out.st = "ok"
        /\ conn = task[t].connAtCall

\* C2: when a step of the bind sequence fails in initialize_repo the call
\* returns the error and does not touch self.conn (an absent handle stays
\* absent); an initialize_repo call made after a failure, with the handle
\* absent, starts the bind sequence again at step 1, and a call that returns
\* success after running the sequence ran all six steps and left a handle.
C2_FailedInitializeRetryable ==
    [][\A t \in Tasks :
          /\ (task'[t].op = "initialize_repo" /\ Finishes(t) /\ task'[t].reply = "fail")
             => /\ task'[t].out.st = "err"
                /\ conn' = conn
                /\ task'[t].steps \in {SubSeq(BindSteps, 1, n) : n \in 1..4}
          /\ (Enters(t, "initialize_repo") /\ bindFailed /\ conn = 0)
             => /\ SubSeq(task'[t].steps, 1, 1) = <<1>>
                /\ task'[t].pc \in {"connect", "done"}
                /\ task'[t].pc = "done" => task'[t].out.st = "err"
          /\ (task'[t].op = "initialize_repo" /\ Finishes(t)
              /\ task'[t].out.st = "ok" /\ task'[t].connAtCall = 0)
             => /\ task'[t].steps = BindSteps
                /\ conn' # 0]_vars

C2_Witness ==
    \E t \in Tasks :
        /\ task[t].op = "initialize_repo" /\ task[t].pc = "done"
        /\ task[t].afterFailure /\ task[t].connAtCall = 0
        /\ task[t].out.st = "ok" /\ conn = task[t].id

\* C3 (as claimed): create_conn on an instance that is already connected is a
\* no-op: it runs no step of the bind sequence and leaves self.cluster and
\* self.conn unchanged.
C3_ConnectIdempotent ==
    [][\A t \in Tasks :
          ((Enters(t, "create_conn") \/ (Moves(t) /\ task[t].op = "create_conn"))
           /\ task'[t].connAtCall # 0 /\ task'[t].op = "create_conn")
          => /\ task'[t].steps = <<>>
             /\ conn' = conn
             /\ cluster' = cluster]_vars

\* C3 (amended): create_conn has no connected-check: every call, also one on
\* a connected instance, starts the bind sequence at step 1; when its session
\* opens, self.cluster becomes that new session; when it completes, it ran
\* all six steps and self.conn becomes the handle it resolved.
C3_ConnectRebinds ==
    [][\A t \in Tasks :
          /\ Enters(t, "create_conn")
             => /\ SubSeq(task'[t].steps, 1, 1) = <<1>>
                /\ task'[t].pc \in {"connect", "done"}
                /\ task'[t].pc = "done" => task'[t].out.st = "err"
          /\ (task[t].op = "create_conn" /\ task[t].pc = "connect"
              /\ task'[t].pc = "on_connect")
             => (cluster' = task[t].id /\ cluster' # cluster)
          /\ (task[t].op = "create_conn" /\ Finishes(t) /\ task'[t].out.st = "ok")
             => /\ task'[t].steps = BindSteps
                /\ conn' = task[t].bucket
                /\ conn' # 0]_vars

C3_Witness ==
    \E t \in Tasks :
        /\ task[t].op = "create_conn" /\ task[t].pc = "done"
        /\ task[t].out.st = "ok" /\ task[t].connAtCall # 0
        /\ conn = task[t].id /\ conn # task[t].connAtCall

\* the operations C4 names
C4Ops == {"initialize_repo", "validate", "find_by_key", "save", "save_all",
          "native_query"}

C5_AbsentKeyReturnsNone ==
    [][\A t \in Tasks :
          (task[t].op = "find_by_key" /\ task[t].pc = "get" /\ Finishes(t)
           /\ store[task[t].key] = NoDoc /\ task'[t].reply # "fail")
          => /\ task'[t].reply = "notfound"
             /\ task'[t].out = Ok(PyNone)]_vars

C5_Witness ==
    \E t, u \in Tasks :
        /\ task[t].op = "find_by_key" /\ task[u].op = "find_by_key"
        /\ task[t].pc = "done" /\ task[u].pc = "done"
        /\ task[t].compress /\ ~task[u].compress
        /\ task[t].reply = "notfound" /\ task[u].reply = "notfound"
        /\ task[t].out = Ok(PyNone) /\ task[u].out = Ok(PyNone)

\* C6: round trip: when find_by_key(key, compress) is called with the store
\* holding under key what a successful save(key, value, compress) with the
\* same compress wrote, and its lookup is answered with that document still
\* in place, it returns a value equal to the saved one -- for the raw-byte
\* encoding (compress true) and for the structured one (compress false).
C6_RoundTrip ==
    [][\A t \in Tasks : \A v \in Values :
          (task[t].op = "find_by_key" /\ task[t].pc = "get" /\ Finishes(t)
           /\ task'[t].reply # "fail"
           /\ EncodeOk(SaveTranscoder(task[t].compress), v)
           /\ task[t].doc = Encode(SaveTranscoder(task[t].compress), v)
           /\ store[task[t].key] = task[t].doc)
          => task'[t].out = Ok(v)]_vars

\* C7: when save_all has returned successfully, every upsert it issued has
\* been completed by the backend: none is still in flight.
C7_SaveAllCompletesWrites ==
    \A t \in Tasks :
        (task[t].op = "save_all" /\ task[t].pc = "done" /\ task[t].out.st = "ok")
        => \A i \in 1..Len(inflight) : inflight[i].call # task[t].id

\* C8: when the backend refuses the upsert of entry i of a save_all batch, the
\* call has returned an error to its caller and has issued no upsert for an
\* entry after i.
C8_SaveAllAbortsOnFirstError ==
    \A t \in Tasks : \A i \in 1..Len(task[t].batch) :
        (task[t].op = "save_all" /\ task[t].pc = "done" /\ i \in task[t].refused)
        => /\ task[t].out.st = "err"
           /\ task[t].issued <= i

\* C9: a call one of whose backend calls failed (other than a not-found
\* lookup) has not returned success: its caller got an error.
C9_FailuresPropagate ==
    \A t \in Tasks :
        (task[t].pc = "done"
         /\ (task[t].reply = "fail" \/ task[t].refused # {}))
        => task[t].out.st = "err"

\* C10: a non-raw find_by_key whose lookup is answered with an existing
\* document returns a value and raises nothing; when the payload is not a
\* structured (map) value, what it returns is the payload as plain text.
C10_DecodeFallback ==
    [][\A t \in Tasks :
          (task[t].op = "find_by_key" /\ task[t].pc = "get" /\ Finishes(t)
           /\ ~task[t].compress /\ task'[t].reply = "ok")
          => /\ task'[t].out.st = "ok"
             /\ task'[t].out.val.ty \in {"dict", "str"}]_vars

\* C11: a validate call on a bound instance whose sentinel lookup ends in
\* not-found returns None without raising; one whose lookup fails for another
\* reason (the backend cannot be reached, the lookup times out) raises.
C11_ValidateOutcome ==
    \A t \in Tasks :
        (task[t].op = "validate" /\ task[t].pc = "done" /\ task[t].connAtCall # 0)
        => /\ task[t].reply = "notfound" => task[t].out = Ok(PyNone)
           /\ task[t].reply = "fail" => task[t].out.st = "err"
           /\ task[t].reply \in {"notfound", "fail", "ok"}

C11_Witness ==
    \E t, u \in Tasks :
        /\ task[t].op = "validate" /\ task[u].op = "validate"
        /\ task[t].pc = "done" /\ task[u].pc = "done"
        /\ task[t].reply = "notfound" /\ task[t].out = Ok(PyNone)
        /\ task[u].reply = "fail" /\ task[u].out.st = "err"

\* C12: a native_query call made with a cluster session stored, whose query
\* the backend does not fail, returns the rows the backend yields as a list
\* (the empty list when there are none), not an error.
C12_QueryReturnsRows ==
    \A t \in Tasks :
        (task[t].op = "native_query" /\ task[t].pc = "done"
         /\ task[t].issued = 1 /\ task[t].reply # "fail")
        => \E rows \in RowSets : task[t].out = Ok(PyList(rows))

\* C13: no retries: a call of validate, find_by_key, save or native_query
\* makes at most one driver call; initialize_repo runs each step of the bind
\* sequence at most once (its awaited driver calls number at most three); and
\* once a driver call has failed, the call has returned the error.
C13_NoRetry ==
    \A t \in Tasks :
        /\ task[t].op \in {"validate", "find_by_key", "save", "native_query"}
           => task[t].issued <= 1
        /\ task[t].op = "initialize_repo"
           => /\ task[t].steps \in {SubSeq(BindSteps, 1, n) : n \in 0..6}
              /\ task[t].issued <= 3
        /\ (task[t].op \in {"initialize_repo", "validate", "find_by_key", "save",
                            "native_query"} /\ task[t].reply = "fail")
           => (task[t].pc = "done" /\ task[t].out.st = "err")

C13_Witness ==
    \E t, u \in Tasks :
        /\ task[t].op = "find_by_key" /\ task[t].pc = "done"
        /\ task[t].reply = "fail" /\ task[t].issued = 1 /\ task[t].out.st = "err"
        /\ task[u].op = "initialize_repo" /\ task[u].pc = "done"
        /\ task[u].reply = "fail" /\ task[u].steps = <<1, 2, 3>>

\* C14: while initialize_repo waits at step 3 for the cluster session to
\* report ready, the wait is bounded by the configured readiness-wait
\* timeout (wait_timeout), so that a session that never reports ready ends
\* the call with an error.
C14_ReadyWaitBounded ==
    \A t \in Tasks :
        task[t].pc = "on_connect" => "wait_timeout" \in ReadyWaitBounds(conn_config)

\* C15: the config of every instance has a non-empty bucket
\* name, and no operation changes a field of it.
C15_BucketNonEmpty ==
    [](conn_config.bucket_name # "") /\ [][conn_config' = conn_config]_vars

\* the calls that run the bind sequence
BindOps == {"initialize_repo", "create_conn"}

\* C16: the steps of the bind sequence a call has run are an initial part of
\* authenticator, session open, session ready-wait, bucket, scope,
\* collection-and-store, in that order; once a step has failed the call has
\* returned the error without running a later step, and the failing call
\* does not store a handle.
C16_BindOrder ==
    /\ [](\A t \in Tasks :
            task[t].op \in BindOps
            => /\ task[t].steps \in {SubSeq(BindSteps, 1, n) : n \in 0..6}
               /\ task[t].reply = "fail"
                  => /\ task[t].pc = "done" /\ task[t].out.st = "err"
                     /\ Len(task[t].steps) <= 4)
    /\ [][\A t \in Tasks :
            (task'[t].op \in BindOps /\ Finishes(t) /\ task'[t].reply = "fail")
            => conn' = conn]_vars

C16_Witness ==
    \E t, u \in Tasks :
        /\ task[t].op \in BindOps /\ task[t].pc = "done" /\ task[t].reply = "fail"
        /\ task[t].steps = <<1, 2, 3, 4>> /\ task[t].connAtCall = 0
        /\ task[u].op \in BindOps /\ task[u].pc = "done" /\ task[u].out.st = "ok"
        /\ task[u].steps = BindSteps /\ task[u].id > task[t].id /\ conn = task[u].id

\* the calls C17 names
CrudOps == {"validate", "find_by_key", "save", "save_all", "native_query"}

\* C17: no step of a validate, find_by_key, save, save_all or native_query
\* call changes self.conn, self.cluster or the config, bound or not, with
\* success or with an error: such a call never connects.
C17_CrudFrame ==
    [][\A t \in Tasks :
          (Moves(t) /\ task'[t].pc # "idle" /\ task'[t].op \in CrudOps)
          => (conn' = conn /\ cluster' = cluster /\ conn_config' = conn_config)]_vars

C17_Witness ==
    \E t, u \in Tasks :
        /\ task[t].op \in CrudOps /\ task[t].pc = "done"
        /\ task[t].connAtCall = 0 /\ task[t].out.st = "err"
        /\ task[u].op \in CrudOps /\ task[u].pc = "done"
        /\ task[u].connAtCall # 0 /\ task[u].out.st = "ok" /\ task[u].issued > 0
        /\ conn = task[u].connAtCall

\* an initialize_repo call suspended before step 6
Binding(u) ==
    task[u].op = "initialize_repo"
    /\ task[u].pc \in {"connect", "on_connect", "bucket_on_connect"}

\* C18 (as claimed): a find_by_key, save or validate call made while an
\* initialize_repo call is suspended before step 6 has ended in an error
\* without a driver get or upsert.
C18_CrudDuringInitializeFails ==
    \A t, u \in Tasks :
        (task[t].op \in {"find_by_key", "save", "validate"}
         /\ Binding(u) /\ task[t].id > task[u].id)
        => /\ task[t].pc = "done"
           /\ task[t].out = Raise("AttributeError")
           /\ task[t].issued = 0

\* C18 (amended): a find_by_key, save or validate call made while no handle
\* is stored -- as while the first initialize_repo is suspended before step
\* 6 -- has ended in an AttributeError at once, without waiting for the bind
\* and without a driver get or upsert.  (Made while an initialize_repo is
\* suspended but after another call has stored a handle, it runs against
\* that handle.)
C18_CrudOnAbsentHandleFails ==
    \A t \in Tasks :
        (task[t].op \in {"find_by_key", "save", "validate"} /\ task[t].connAtCall = 0)
        => /\ task[t].pc = "done"
           /\ task[t].out = Raise("AttributeError")
           /\ task[t].issued = 0

C18_Witness ==
    \E t, u \in Tasks :
        /\ task[t].op \in {"find_by_key", "save", "validate"}
        /\ Binding(u) /\ task[u].pc = "bucket_on_connect" /\ task[t].id > task[u].id
        /\ task[t].pc = "done" /\ task[t].out = Raise("AttributeError")
        /\ conn = 0

\* C19: a stored handle was resolved from the cluster session that is stored
\* now.
C19_HandleFromCurrentSession ==
    conn # 0 => conn = cluster

\* C20: a validate, find_by_key, save, save_all or native_query call that
\* has made a driver call (get, upsert, query) was made after a bind had
\* stored a handle.
C20_NoBackendCallBeforeBound ==
    \A t \in Tasks :
        (task[t].op \in CrudOps /\ task[t].issued > 0) => task[t].connAtCall # 0

====
